---- MODULE Spec2Model ----
(***************************************************************************)
(* Model of the marine_species_database_backend canister                   *)
(* (src/marine_species_database_backend/src/lib.rs).                       *)
(*                                                                         *)
(* The canister keeps two stable B-tree maps (Taxonomy, MarineSpecie) and  *)
(* one stable id cell per map.  Every update call runs to completion; a    *)
(* call that panics traps, and the host then discards every change the     *)
(* call made.  Strings are sequences of one-character strings.             *)
(***************************************************************************)
EXTENDS Integers, Sequences, FiniteSets, TLC

VARIABLES
    taxonomy_id_counter,      \* TAXONOMY_ID_COUNTER      (MemoryId 0)
    marinespecie_id_counter,  \* MARINESPECIE_ID_COUNTER  (MemoryId 1)
    taxonomy_str,             \* TAXONOMY_STR             (MemoryId 2): id -> Taxonomy
    marinespecie_str,         \* MARINESPECIE_STR         (MemoryId 3): id -> MarineSpecie
    now,                      \* the value ic_cdk::api::time() returns
    last,                     \* the latest update call and its response
    ids_returned,             \* history: per collection, the ids returned by Ok Creates
    ids_deleted               \* history: per collection, the ids removed by Ok Deletes

vars == <<taxonomy_id_counter, marinespecie_id_counter, taxonomy_str,
          marinespecie_str, now, last, ids_returned, ids_deleted>>

stable == <<taxonomy_id_counter, marinespecie_id_counter, taxonomy_str,
            marinespecie_str>>

history == <<ids_returned, ids_deleted>>

----------------------------------------------------------------------------
(* Bounds *)

\* successful Creates in one run, both collections together
MaxCreates == 2
\* the clock runs from 0 to MaxTime
MaxTime == 1

----------------------------------------------------------------------------
(* Program constants *)

\* BoundedStorable::MAX_SIZE of Taxonomy and of MarineSpecie
MAX_SIZE == 1024

\* Candid header of an encoded Taxonomy: "DIDL", the type table (a record of
\* 11 fields and opt nat64) and the argument list
TaxonomyHeaderSize == 75

\* Candid header of an encoded MarineSpecie (a record of 8 fields)
MarineSpecieHeaderSize == 57

----------------------------------------------------------------------------
(* Values *)

None == <<>>

Some(x) == <<x>>

\* the textual form of the principals that call the canister
Callers == { <<"2","v","x","s","x","-","f","a","e">>,
             <<"a","a","a","a","a","-","a","a">> }

\* the anonymous principal
AnonymousCaller == <<"2","v","x","s","x","-","f","a","e">>

\* a string one byte longer than MAX_SIZE
LongStr == [i \in 1..(MAX_SIZE + 1) |-> "x"]

Ids == 0..(MaxCreates - 1)

TaxonomyStrFields ==
    {"kingdom", "phylum", "class", "order", "family", "genus", "species"}

MarineSpecieStrFields == {"name", "habitat", "conservation_status"}

UniformTaxonomyPayload(s) ==
    [kingdom |-> s, phylum |-> s, class |-> s, order |-> s,
     family |-> s, genus |-> s, species |-> s]

UniformMarineSpeciePayload(s, t) ==
    [name |-> s, habitat |-> s, taxonomy_id |-> t, conservation_status |-> s]

\* the payloads the callers send to add_taxonomy: a valid one, one with an
\* empty field, one too long to store
TaxonomyPayloads ==
    { UniformTaxonomyPayload(<<"a">>),
      [UniformTaxonomyPayload(<<"a">>) EXCEPT !.order = <<>>],
      [UniformTaxonomyPayload(<<"a">>) EXCEPT !.species = LongStr] }

\* the payloads the callers send to update_taxonomy: every field differs
\* from the field a stored record got when it was added
TaxonomyUpdatePayloads ==
    { UniformTaxonomyPayload(<<"b">>),
      [UniformTaxonomyPayload(<<"b">>) EXCEPT !.order = <<>>],
      [UniformTaxonomyPayload(<<"b">>) EXCEPT !.species = LongStr] }

\* the payloads the callers send to add_marinespecie
MarineSpeciePayloads ==
    { UniformMarineSpeciePayload(<<"a">>, 0),
      [UniformMarineSpeciePayload(<<"a">>, 0) EXCEPT !.habitat = <<>>],
      [UniformMarineSpeciePayload(<<"a">>, 0) EXCEPT !.name = LongStr] }

\* the payloads the callers send to update_marinespecie
MarineSpecieUpdatePayloads ==
    { UniformMarineSpeciePayload(<<"B">>, 1),
      [UniformMarineSpeciePayload(<<"B">>, 1) EXCEPT !.habitat = <<>>],
      [UniformMarineSpeciePayload(<<"B">>, 1) EXCEPT !.name = LongStr] }

\* payloads with the string fields in empty left empty, for every choice of
\* empty
TaxonomyEmptyFieldPayloads ==
    { [f \in TaxonomyStrFields |-> IF f \in empty THEN <<>> ELSE <<"a">>] :
        empty \in SUBSET TaxonomyStrFields }

MarineSpecieEmptyFieldPayloads ==
    { [f \in MarineSpecieStrFields \cup {"taxonomy_id"} |->
            IF f = "taxonomy_id" THEN 0
            ELSE IF f \in empty THEN <<>> ELSE <<"a">>] :
        empty \in SUBSET MarineSpecieStrFields }

\* the statuses the callers pass to get_marinespecie_by_conservation_status
ConservationStatuses == {<<"a">>, <<"A">>, <<"b">>, <<"B">>, <<"x">>, <<>>}

\* payloads in which one string field at a time is empty or a single space
TaxonomyBlankPayloads ==
    { UniformTaxonomyPayload(<<"a">>) } \cup
    { [UniformTaxonomyPayload(<<"a">>) EXCEPT ![f] = s] :
        f \in TaxonomyStrFields, s \in {<<>>, <<" ">>} }

MarineSpecieBlankPayloads ==
    { UniformMarineSpeciePayload(<<"a">>, 0) } \cup
    { [UniformMarineSpeciePayload(<<"a">>, 0) EXCEPT ![f] = s] :
        f \in MarineSpecieStrFields, s \in {<<>>, <<" ">>} }

----------------------------------------------------------------------------
(* Results *)

Ok(v) == [kind |-> "Ok", value |-> v]

NotFound == [kind |-> "NotFound"]

ValidationFailed(fields) == [kind |-> "ValidationFailed", content |-> fields]

NotResearcher == [kind |-> "NotResearcher"]

\* the call panicked: the host rejects it and rolls its changes back
Trap == [kind |-> "Trap"]

----------------------------------------------------------------------------
(* Library and derived code *)

\* the derive with the attribute on genus left out
validate_TaxonomyPayload_skips_genus(p) ==
    {f \in TaxonomyStrFields \ {"genus"} : Len(p[f]) < 1}

\* #[derive(Validate)] on TaxonomyPayload: the fields whose length(min = 1)
\* check fails; the derive checks every field
validate_TaxonomyPayload(p) ==
    {f \in TaxonomyStrFields : Len(p[f]) < 1}

\* a validation that stops at the first violated field, in declaration order
validate_MarineSpeciePayload_first_only(p) ==
    LET fields == <<"name", "habitat", "conservation_status">>
        violated == {i \in DOMAIN fields : Len(p[fields[i]]) < 1}
    IN  {fields[i] : i \in {j \in violated : \A k \in violated : j <= k}}

\* #[derive(Validate)] on MarineSpeciePayload: length(min = 1) on the three
\* strings, range(min = 0) on taxonomy_id
validate_MarineSpeciePayload(p) ==
    {f \in MarineSpecieStrFields : Len(p[f]) < 1}
        \cup (IF p.taxonomy_id < 0 THEN {"taxonomy_id"} ELSE {})

\* bytes of the unsigned LEB128 encoding of n
Leb128Len(n) == IF n < 128 THEN 1 ELSE IF n < 16384 THEN 2 ELSE 3

\* Candid text value: the length, then the bytes
TextSize(s) == Leb128Len(Len(s)) + Len(s)

\* Candid opt nat64 value
OptNat64Size(o) == IF o = None THEN 1 ELSE 9

\* Taxonomy::to_bytes(): the length of Encode!(self)
Taxonomy_to_bytes_len(t) ==
    TaxonomyHeaderSize + 8 + TextSize(t.researcher) + TextSize(t.kingdom)
        + TextSize(t.phylum) + TextSize(t.class) + TextSize(t.order)
        + TextSize(t.family) + TextSize(t.genus) + TextSize(t.species)
        + 8 + OptNat64Size(t.updated_at)

\* MarineSpecie::to_bytes(): the length of Encode!(self)
MarineSpecie_to_bytes_len(m) ==
    MarineSpecieHeaderSize + 8 + TextSize(m.researcher) + TextSize(m.name)
        + TextSize(m.habitat) + 8 + TextSize(m.conservation_status)
        + 8 + OptNat64Size(m.updated_at)

\* StableBTreeMap::insert asserts that the value's bytes fit in MAX_SIZE
InsertPanics(len) == len > MAX_SIZE

\* StableBTreeMap::insert that loses the write
BTreeMap_insert_dropped(map, key, value) == map

\* StableBTreeMap::insert once the assertion passed: write or overwrite
BTreeMap_insert(map, key, value) ==
    [k \in (DOMAIN map) \cup {key} |-> IF k = key THEN value ELSE map[k]]

\* StableBTreeMap::iter: the (key, value) pairs in ascending key order
BTreeMap_iter(map) ==
    [i \in 1..Cardinality(DOMAIN map) |->
        LET key == CHOOSE k \in DOMAIN map :
                        Cardinality({j \in DOMAIN map : j < k}) = i - 1
        IN  <<key, map[key]>>]

\* the capital letters of the strings in use and their small letters
Uppercase == <<"A", "B">>

Lowercase == <<"a", "b">>

\* char::to_lowercase
char_to_lowercase(c) ==
    IF \E i \in DOMAIN Uppercase : Uppercase[i] = c
    THEN Lowercase[CHOOSE i \in DOMAIN Uppercase : Uppercase[i] = c]
    ELSE c

\* str::to_lowercase
to_lowercase(s) == [i \in 1..Len(s) |-> char_to_lowercase(s[i])]

\* StableBTreeMap::remove
BTreeMap_remove(map, key) ==
    [k \in (DOMAIN map) \ {key} |-> map[k]]

\* Cell::set that returns the value it stored
Cell_set_returns_new(cell, value) == [cell |-> value, returned |-> value]

\* Cell::set that fails to store the value
Cell_set_not_stored(cell, value) == [cell |-> cell, returned |-> cell]

\* Cell::set stores the value and returns the value the cell held before
Cell_set(cell, value) == [cell |-> value, returned |-> cell]

----------------------------------------------------------------------------
(* Records *)

\* a Taxonomy built with id 0 whatever id was allocated
NewTaxonomy_default_id(id, caller, taxonomy_payload, time) ==
    [id |-> 0,
     researcher |-> caller,
     kingdom |-> taxonomy_payload.kingdom,
     phylum |-> taxonomy_payload.phylum,
     class |-> taxonomy_payload.class,
     order |-> taxonomy_payload.order,
     family |-> taxonomy_payload.family,
     genus |-> taxonomy_payload.genus,
     species |-> taxonomy_payload.species,
     created_at |-> time,
     updated_at |-> None]

\* the Taxonomy that add_taxonomy builds
NewTaxonomy(id, caller, taxonomy_payload, time) ==
    [id |-> id,
     researcher |-> caller,
     kingdom |-> taxonomy_payload.kingdom,
     phylum |-> taxonomy_payload.phylum,
     class |-> taxonomy_payload.class,
     order |-> taxonomy_payload.order,
     family |-> taxonomy_payload.family,
     genus |-> taxonomy_payload.genus,
     species |-> taxonomy_payload.species,
     created_at |-> time,
     updated_at |-> None]

\* update_taxonomy that stamps created_at as well
UpdatedTaxonomy_restamped(taxonomy, taxonomy_payload, time) ==
    [taxonomy EXCEPT
        !.kingdom = taxonomy_payload.kingdom,
        !.phylum = taxonomy_payload.phylum,
        !.class = taxonomy_payload.class,
        !.order = taxonomy_payload.order,
        !.family = taxonomy_payload.family,
        !.genus = taxonomy_payload.genus,
        !.species = taxonomy_payload.species,
        !.created_at = time,
        !.updated_at = Some(time)]

\* the assignments of update_taxonomy to the record it read
UpdatedTaxonomy(taxonomy, taxonomy_payload, time) ==
    [taxonomy EXCEPT
        !.kingdom = taxonomy_payload.kingdom,
        !.phylum = taxonomy_payload.phylum,
        !.class = taxonomy_payload.class,
        !.order = taxonomy_payload.order,
        !.family = taxonomy_payload.family,
        !.genus = taxonomy_payload.genus,
        !.species = taxonomy_payload.species,
        !.updated_at = Some(time)]

\* the MarineSpecie that add_marinespecie builds
NewMarineSpecie(id, caller, marinespecie_payload, time) ==
    [id |-> id,
     researcher |-> caller,
     name |-> marinespecie_payload.name,
     habitat |-> marinespecie_payload.habitat,
     taxonomy_id |-> marinespecie_payload.taxonomy_id,
     conservation_status |-> marinespecie_payload.conservation_status,
     created_at |-> time,
     updated_at |-> None]

\* update_marinespecie that forgets updated_at
UpdatedMarineSpecie_no_stamp(marinespecie, marinespecie_payload, time) ==
    [marinespecie EXCEPT
        !.name = marinespecie_payload.name,
        !.habitat = marinespecie_payload.habitat,
        !.taxonomy_id = marinespecie_payload.taxonomy_id,
        !.conservation_status = marinespecie_payload.conservation_status]

\* the assignments of update_marinespecie to the record it read
UpdatedMarineSpecie(marinespecie, marinespecie_payload, time) ==
    [marinespecie EXCEPT
        !.name = marinespecie_payload.name,
        !.habitat = marinespecie_payload.habitat,
        !.taxonomy_id = marinespecie_payload.taxonomy_id,
        !.conservation_status = marinespecie_payload.conservation_status,
        !.updated_at = Some(time)]

----------------------------------------------------------------------------
(* Queries *)

_get_taxonomy(id) ==
    IF id \in DOMAIN taxonomy_str THEN Some(taxonomy_str[id]) ELSE None

get_taxonomy(id) ==
    IF _get_taxonomy(id) # None THEN Ok(_get_taxonomy(id)[1]) ELSE NotFound

_get_marinespecie(id) ==
    IF id \in DOMAIN marinespecie_str THEN Some(marinespecie_str[id]) ELSE None

get_marinespecie(id) ==
    IF _get_marinespecie(id) # None THEN Ok(_get_marinespecie(id)[1])
    ELSE NotFound

is_caller_taxonomy_research(taxonomy, caller) ==
    IF taxonomy.researcher # caller THEN NotResearcher ELSE Ok(<<>>)

\* the ownership check with its comparison left out
is_caller_marinespecie_research_always_ok(marinespecie, caller) == Ok(<<>>)

is_caller_marinespecie_research(marinespecie, caller) ==
    IF marinespecie.researcher # caller THEN NotResearcher ELSE Ok(<<>>)

----------------------------------------------------------------------------
(* Initial state: empty stable memory, Cell::init(.., 0) *)

Init ==
    /\ taxonomy_id_counter = 0
    /\ marinespecie_id_counter = 0
    /\ taxonomy_str = <<>>
    /\ marinespecie_str = <<>>
    /\ now = 0
    /\ last = [op |-> "none"]
    /\ ids_returned = [Taxonomy |-> {}, MarineSpecie |-> {}]
    /\ ids_deleted = [Taxonomy |-> {}, MarineSpecie |-> {}]

\* the canister runs one call at a time: the next call starts after the
\* response of the latest one went out
Idle == last.op = "none"

\* a call that changes nothing but its response
Respond(call, result) ==
    /\ last' = [call EXCEPT !.result = result]
    /\ UNCHANGED <<stable, now, history>>

----------------------------------------------------------------------------
(* Update calls on Taxonomy *)

\* add_taxonomy that takes its id before it validates the payload
add_taxonomy_allocates_first(taxonomy_payload, caller) ==
    LET call == [op |-> "add_taxonomy", caller |-> caller,
                 payload |-> taxonomy_payload, result |-> Trap]
        check_payload == validate_TaxonomyPayload(taxonomy_payload)
        set == Cell_set(taxonomy_id_counter, taxonomy_id_counter + 1)
        id == set.returned
        taxonomy == NewTaxonomy(id, caller, taxonomy_payload, now)
    IN  /\ Idle
        /\ IF InsertPanics(Taxonomy_to_bytes_len(taxonomy))
           THEN Respond(call, Trap)
           ELSE /\ taxonomy_id_counter + marinespecie_id_counter < MaxCreates
                /\ taxonomy_id_counter' = set.cell
                /\ IF check_payload # {}
                   THEN /\ last' = [call EXCEPT
                                       !.result = ValidationFailed(check_payload)]
                        /\ UNCHANGED <<taxonomy_str, ids_returned>>
                   ELSE /\ taxonomy_str' =
                               BTreeMap_insert(taxonomy_str, taxonomy.id, taxonomy)
                        /\ last' = [call EXCEPT !.result = Ok(taxonomy)]
                        /\ ids_returned' =
                               [ids_returned EXCEPT !.Taxonomy = @ \cup {id}]
                /\ UNCHANGED <<marinespecie_id_counter, marinespecie_str, now,
                               ids_deleted>>

add_taxonomy(taxonomy_payload, caller) ==
    LET call == [op |-> "add_taxonomy", caller |-> caller,
                 payload |-> taxonomy_payload, result |-> Trap]
        check_payload == validate_TaxonomyPayload(taxonomy_payload)
        set == Cell_set(taxonomy_id_counter, taxonomy_id_counter + 1)
        id == set.returned
        taxonomy == NewTaxonomy(id, caller, taxonomy_payload, now)
    IN  /\ Idle
        /\ IF check_payload # {}
           THEN Respond(call, ValidationFailed(check_payload))
           ELSE IF InsertPanics(Taxonomy_to_bytes_len(taxonomy))
           THEN Respond(call, Trap)
           ELSE /\ taxonomy_id_counter + marinespecie_id_counter < MaxCreates
                /\ taxonomy_id_counter' = set.cell
                /\ taxonomy_str' = BTreeMap_insert(taxonomy_str, taxonomy.id, taxonomy)
                /\ last' = [call EXCEPT !.result = Ok(taxonomy)]
                /\ ids_returned' = [ids_returned EXCEPT !.Taxonomy = @ \cup {id}]
                /\ UNCHANGED <<marinespecie_id_counter, marinespecie_str, now,
                               ids_deleted>>

update_taxonomy(id, taxonomy_payload, caller) ==
    LET call == [op |-> "update_taxonomy", caller |-> caller, id |-> id,
                 payload |-> taxonomy_payload, result |-> Trap]
        check_payload == validate_TaxonomyPayload(taxonomy_payload)
        found == _get_taxonomy(id)
        taxonomy == UpdatedTaxonomy(found[1], taxonomy_payload, now)
    IN  /\ Idle
        /\ IF check_payload # {}
           THEN Respond(call, ValidationFailed(check_payload))
           ELSE IF found = None
           THEN Respond(call, NotFound)
           ELSE IF is_caller_taxonomy_research(found[1], caller) # Ok(<<>>)
           THEN Respond(call, is_caller_taxonomy_research(found[1], caller))
           ELSE IF InsertPanics(Taxonomy_to_bytes_len(taxonomy))
           THEN Respond(call, Trap)
           ELSE /\ taxonomy_str' = BTreeMap_insert(taxonomy_str, taxonomy.id, taxonomy)
                /\ last' = [call EXCEPT !.result = Ok(taxonomy)]
                /\ UNCHANGED <<taxonomy_id_counter, marinespecie_id_counter,
                               marinespecie_str, now, history>>

\* delete_taxonomy that also removes the MarineSpecie records referring to it
delete_taxonomy_cascading(id, caller) ==
    LET call == [op |-> "delete_taxonomy", caller |-> caller, id |-> id,
                 result |-> Trap]
        found == _get_taxonomy(id)
        kept == {m \in DOMAIN marinespecie_str :
                    marinespecie_str[m].taxonomy_id # id}
    IN  /\ Idle
        /\ IF found = None
           THEN Respond(call, NotFound)
           ELSE IF is_caller_taxonomy_research(found[1], caller) # Ok(<<>>)
           THEN Respond(call, is_caller_taxonomy_research(found[1], caller))
           ELSE /\ taxonomy_str' = BTreeMap_remove(taxonomy_str, id)
                /\ marinespecie_str' = [m \in kept |-> marinespecie_str[m]]
                /\ last' = [call EXCEPT !.result = Ok(taxonomy_str[id])]
                /\ ids_deleted' = [ids_deleted EXCEPT !.Taxonomy = @ \cup {id}]
                /\ UNCHANGED <<taxonomy_id_counter, marinespecie_id_counter,
                               now, ids_returned>>

\* delete_taxonomy without the ownership check
delete_taxonomy_unchecked(id, caller) ==
    LET call == [op |-> "delete_taxonomy", caller |-> caller, id |-> id,
                 result |-> Trap]
        found == _get_taxonomy(id)
    IN  /\ Idle
        /\ IF found = None
           THEN Respond(call, NotFound)
           ELSE /\ taxonomy_str' = BTreeMap_remove(taxonomy_str, id)
                /\ last' = [call EXCEPT !.result = Ok(taxonomy_str[id])]
                /\ ids_deleted' = [ids_deleted EXCEPT !.Taxonomy = @ \cup {id}]
                /\ UNCHANGED <<taxonomy_id_counter, marinespecie_id_counter,
                               marinespecie_str, now, ids_returned>>

delete_taxonomy(id, caller) ==
    LET call == [op |-> "delete_taxonomy", caller |-> caller, id |-> id,
                 result |-> Trap]
        found == _get_taxonomy(id)
    IN  /\ Idle
        /\ IF found = None
           THEN Respond(call, NotFound)
           ELSE IF is_caller_taxonomy_research(found[1], caller) # Ok(<<>>)
           THEN Respond(call, is_caller_taxonomy_research(found[1], caller))
           ELSE /\ taxonomy_str' = BTreeMap_remove(taxonomy_str, id)
                /\ last' = [call EXCEPT !.result = Ok(taxonomy_str[id])]
                /\ ids_deleted' = [ids_deleted EXCEPT !.Taxonomy = @ \cup {id}]
                /\ UNCHANGED <<taxonomy_id_counter, marinespecie_id_counter,
                               marinespecie_str, now, ids_returned>>

----------------------------------------------------------------------------
(* Update calls on MarineSpecie *)

\* add_marinespecie that takes the number of stored records as the id
add_marinespecie_id_from_len(marinespecie_payload, caller) ==
    LET call == [op |-> "add_marinespecie", caller |-> caller,
                 payload |-> marinespecie_payload, result |-> Trap]
        check_payload == validate_MarineSpeciePayload(marinespecie_payload)
        set == Cell_set(marinespecie_id_counter, marinespecie_id_counter + 1)
        id == Cardinality(DOMAIN marinespecie_str)
        marinespecie == NewMarineSpecie(id, caller, marinespecie_payload, now)
    IN  /\ Idle
        /\ IF check_payload # {}
           THEN Respond(call, ValidationFailed(check_payload))
           ELSE IF InsertPanics(MarineSpecie_to_bytes_len(marinespecie))
           THEN Respond(call, Trap)
           ELSE /\ taxonomy_id_counter + marinespecie_id_counter < MaxCreates
                /\ marinespecie_id_counter' = set.cell
                /\ marinespecie_str' =
                       BTreeMap_insert(marinespecie_str, marinespecie.id, marinespecie)
                /\ last' = [call EXCEPT !.result = Ok(marinespecie)]
                /\ ids_returned' = [ids_returned EXCEPT !.MarineSpecie = @ \cup {id}]
                /\ UNCHANGED <<taxonomy_id_counter, taxonomy_str, now, ids_deleted>>

\* add_marinespecie that allocates its id from the Taxonomy counter
add_marinespecie_shared_counter(marinespecie_payload, caller) ==
    LET call == [op |-> "add_marinespecie", caller |-> caller,
                 payload |-> marinespecie_payload, result |-> Trap]
        check_payload == validate_MarineSpeciePayload(marinespecie_payload)
        set == Cell_set(taxonomy_id_counter, taxonomy_id_counter + 1)
        id == set.returned
        marinespecie == NewMarineSpecie(id, caller, marinespecie_payload, now)
    IN  /\ Idle
        /\ IF check_payload # {}
           THEN Respond(call, ValidationFailed(check_payload))
           ELSE IF InsertPanics(MarineSpecie_to_bytes_len(marinespecie))
           THEN Respond(call, Trap)
           ELSE /\ taxonomy_id_counter + marinespecie_id_counter < MaxCreates
                /\ taxonomy_id_counter' = set.cell
                /\ marinespecie_str' =
                       BTreeMap_insert(marinespecie_str, marinespecie.id, marinespecie)
                /\ last' = [call EXCEPT !.result = Ok(marinespecie)]
                /\ ids_returned' = [ids_returned EXCEPT !.MarineSpecie = @ \cup {id}]
                /\ UNCHANGED <<marinespecie_id_counter, taxonomy_str, now,
                               ids_deleted>>

add_marinespecie(marinespecie_payload, caller) ==
    LET call == [op |-> "add_marinespecie", caller |-> caller,
                 payload |-> marinespecie_payload, result |-> Trap]
        check_payload == validate_MarineSpeciePayload(marinespecie_payload)
        set == Cell_set(marinespecie_id_counter, marinespecie_id_counter + 1)
        id == set.returned
        marinespecie == NewMarineSpecie(id, caller, marinespecie_payload, now)
    IN  /\ Idle
        /\ IF check_payload # {}
           THEN Respond(call, ValidationFailed(check_payload))
           ELSE IF InsertPanics(MarineSpecie_to_bytes_len(marinespecie))
           THEN Respond(call, Trap)
           ELSE /\ taxonomy_id_counter + marinespecie_id_counter < MaxCreates
                /\ marinespecie_id_counter' = set.cell
                /\ marinespecie_str' =
                       BTreeMap_insert(marinespecie_str, marinespecie.id, marinespecie)
                /\ last' = [call EXCEPT !.result = Ok(marinespecie)]
                /\ ids_returned' = [ids_returned EXCEPT !.MarineSpecie = @ \cup {id}]
                /\ UNCHANGED <<taxonomy_id_counter, taxonomy_str, now, ids_deleted>>

\* update_marinespecie that looks the record up before validating the payload
update_marinespecie_lookup_first(id, marinespecie_payload, caller) ==
    LET call == [op |-> "update_marinespecie", caller |-> caller, id |-> id,
                 payload |-> marinespecie_payload, result |-> Trap]
        check_payload == validate_MarineSpeciePayload(marinespecie_payload)
        found == _get_marinespecie(id)
        marinespecie == UpdatedMarineSpecie(found[1], marinespecie_payload, now)
    IN  /\ Idle
        /\ IF found = None
           THEN Respond(call, NotFound)
           ELSE IF check_payload # {}
           THEN Respond(call, ValidationFailed(check_payload))
           ELSE IF is_caller_marinespecie_research(found[1], caller) # Ok(<<>>)
           THEN Respond(call, is_caller_marinespecie_research(found[1], caller))
           ELSE IF InsertPanics(MarineSpecie_to_bytes_len(marinespecie))
           THEN Respond(call, Trap)
           ELSE /\ marinespecie_str' =
                       BTreeMap_insert(marinespecie_str, marinespecie.id, marinespecie)
                /\ last' = [call EXCEPT !.result = Ok(marinespecie)]
                /\ UNCHANGED <<taxonomy_id_counter, marinespecie_id_counter,
                               taxonomy_str, now, history>>

update_marinespecie(id, marinespecie_payload, caller) ==
    LET call == [op |-> "update_marinespecie", caller |-> caller, id |-> id,
                 payload |-> marinespecie_payload, result |-> Trap]
        check_payload == validate_MarineSpeciePayload(marinespecie_payload)
        found == _get_marinespecie(id)
        marinespecie == UpdatedMarineSpecie(found[1], marinespecie_payload, now)
    IN  /\ Idle
        /\ IF check_payload # {}
           THEN Respond(call, ValidationFailed(check_payload))
           ELSE IF found = None
           THEN Respond(call, NotFound)
           ELSE IF is_caller_marinespecie_research(found[1], caller) # Ok(<<>>)
           THEN Respond(call, is_caller_marinespecie_research(found[1], caller))
           ELSE IF InsertPanics(MarineSpecie_to_bytes_len(marinespecie))
           THEN Respond(call, Trap)
           ELSE /\ marinespecie_str' =
                       BTreeMap_insert(marinespecie_str, marinespecie.id, marinespecie)
                /\ last' = [call EXCEPT !.result = Ok(marinespecie)]
                /\ UNCHANGED <<taxonomy_id_counter, marinespecie_id_counter,
                               taxonomy_str, now, history>>

\* delete_marinespecie that gives the id back to the counter
delete_marinespecie_counter_back(id, caller) ==
    LET call == [op |-> "delete_marinespecie", caller |-> caller, id |-> id,
                 result |-> Trap]
        found == _get_marinespecie(id)
    IN  /\ Idle
        /\ IF found = None
           THEN Respond(call, NotFound)
           ELSE IF is_caller_marinespecie_research(found[1], caller) # Ok(<<>>)
           THEN Respond(call, is_caller_marinespecie_research(found[1], caller))
           ELSE /\ marinespecie_str' = BTreeMap_remove(marinespecie_str, id)
                /\ marinespecie_id_counter' = marinespecie_id_counter - 1
                /\ last' = [call EXCEPT !.result = Ok(marinespecie_str[id])]
                /\ ids_deleted' = [ids_deleted EXCEPT !.MarineSpecie = @ \cup {id}]
                /\ UNCHANGED <<taxonomy_id_counter, taxonomy_str, now,
                               ids_returned>>

delete_marinespecie(id, caller) ==
    LET call == [op |-> "delete_marinespecie", caller |-> caller, id |-> id,
                 result |-> Trap]
        found == _get_marinespecie(id)
    IN  /\ Idle
        /\ IF found = None
           THEN Respond(call, NotFound)
           ELSE IF is_caller_marinespecie_research(found[1], caller) # Ok(<<>>)
           THEN Respond(call, is_caller_marinespecie_research(found[1], caller))
           ELSE /\ marinespecie_str' = BTreeMap_remove(marinespecie_str, id)
                /\ last' = [call EXCEPT !.result = Ok(marinespecie_str[id])]
                /\ ids_deleted' = [ids_deleted EXCEPT !.MarineSpecie = @ \cup {id}]
                /\ UNCHANGED <<taxonomy_id_counter, marinespecie_id_counter,
                               taxonomy_str, now, ids_returned>>

----------------------------------------------------------------------------
(* The clock *)

Tick ==
    /\ Idle
    /\ now < MaxTime
    /\ now' = now + 1
    /\ UNCHANGED <<stable, last, history>>

----------------------------------------------------------------------------
(* Query calls *)

\* get_all_taxonomy that answers an empty collection with an empty list
get_all_taxonomy_empty_is_ok ==
    LET call == [op |-> "get_all_taxonomy", result |-> Trap]
        taxonomy_map == BTreeMap_iter(taxonomy_str)
        taxonomys == [i \in DOMAIN taxonomy_map |-> taxonomy_map[i][2]]
    IN  /\ Idle
        /\ Respond(call, Ok(taxonomys))

get_all_taxonomy ==
    LET call == [op |-> "get_all_taxonomy", result |-> Trap]
        taxonomy_map == BTreeMap_iter(taxonomy_str)
        taxonomys == [i \in DOMAIN taxonomy_map |-> taxonomy_map[i][2]]
    IN  /\ Idle
        /\ IF Len(taxonomys) # 0
           THEN Respond(call, Ok(taxonomys))
           ELSE Respond(call, NotFound)

get_all_marinespecie ==
    LET call == [op |-> "get_all_marinespecie", result |-> Trap]
        marinespecie_map == BTreeMap_iter(marinespecie_str)
        marinespecies == [i \in DOMAIN marinespecie_map |-> marinespecie_map[i][2]]
    IN  /\ Idle
        /\ IF Len(marinespecies) # 0
           THEN Respond(call, Ok(marinespecies))
           ELSE Respond(call, NotFound)

\* the filter with the stored status compared as it is
get_marinespecie_by_conservation_status_stored_as_is(conservation_status) ==
    LET call == [op |-> "get_marinespecie_by_conservation_status",
                 conservation_status |-> conservation_status, result |-> Trap]
        marinespecie_map == BTreeMap_iter(marinespecie_str)
        marinespecies == [i \in DOMAIN marinespecie_map |-> marinespecie_map[i][2]]
        keep(marinespecie) ==
            marinespecie.conservation_status = to_lowercase(conservation_status)
        marinespecie_in_conservation_status == SelectSeq(marinespecies, keep)
    IN  /\ Idle
        /\ IF Len(marinespecie_in_conservation_status) # 0
           THEN Respond(call, Ok(marinespecie_in_conservation_status))
           ELSE Respond(call, NotFound)

get_marinespecie_by_conservation_status(conservation_status) ==
    LET call == [op |-> "get_marinespecie_by_conservation_status",
                 conservation_status |-> conservation_status, result |-> Trap]
        marinespecie_map == BTreeMap_iter(marinespecie_str)
        marinespecies == [i \in DOMAIN marinespecie_map |-> marinespecie_map[i][2]]
        keep(marinespecie) ==
            to_lowercase(marinespecie.conservation_status)
                = to_lowercase(conservation_status)
        marinespecie_in_conservation_status == SelectSeq(marinespecies, keep)
    IN  /\ Idle
        /\ IF Len(marinespecie_in_conservation_status) # 0
           THEN Respond(call, Ok(marinespecie_in_conservation_status))
           ELSE Respond(call, NotFound)

\* the response leaves the canister
Reply ==
    /\ ~Idle
    /\ last' = [op |-> "none"]
    /\ UNCHANGED <<stable, now, history>>

Next ==
    \/ \E p \in TaxonomyPayloads, c \in Callers : add_taxonomy(p, c)
    \/ \E id \in Ids, p \in TaxonomyUpdatePayloads, c \in Callers :
            update_taxonomy(id, p, c)
    \/ \E id \in Ids, c \in Callers : delete_taxonomy(id, c)
    \/ \E p \in MarineSpeciePayloads, c \in Callers : add_marinespecie(p, c)
    \/ \E id \in Ids, p \in MarineSpecieUpdatePayloads, c \in Callers :
            update_marinespecie(id, p, c)
    \/ \E id \in Ids, c \in Callers : delete_marinespecie(id, c)
    \/ Tick
    \/ Reply

Spec == Init /\ [][Next]_vars

\* the same canister, called by one principal with the blank-field payloads
NextBlank ==
    \/ \E p \in TaxonomyBlankPayloads : add_taxonomy(p, AnonymousCaller)
    \/ \E id \in Ids, p \in TaxonomyBlankPayloads :
            update_taxonomy(id, p, AnonymousCaller)
    \/ \E p \in MarineSpecieBlankPayloads : add_marinespecie(p, AnonymousCaller)
    \/ \E id \in Ids, p \in MarineSpecieBlankPayloads :
            update_marinespecie(id, p, AnonymousCaller)
    \/ Reply

SpecBlank == Init /\ [][NextBlank]_vars

\* the canister with its query calls, called by one principal with the
\* payloads that pass validation
NextQuery ==
    \/ add_taxonomy(UniformTaxonomyPayload(<<"a">>), AnonymousCaller)
    \/ \E id \in Ids : delete_taxonomy(id, AnonymousCaller)
    \/ add_marinespecie(UniformMarineSpeciePayload(<<"a">>, 0), AnonymousCaller)
    \/ \E id \in Ids :
            update_marinespecie(id, UniformMarineSpeciePayload(<<"B">>, 1),
                                AnonymousCaller)
    \/ \E id \in Ids : delete_marinespecie(id, AnonymousCaller)
    \/ get_all_taxonomy
    \/ get_all_marinespecie
    \/ \E status \in ConservationStatuses :
            get_marinespecie_by_conservation_status(status)
    \/ Reply

SpecQuery == Init /\ [][NextQuery]_vars

\* the canister called by one principal with the payloads that leave any
\* number of string fields empty
NextValidate ==
    \/ \E p \in TaxonomyEmptyFieldPayloads : add_taxonomy(p, AnonymousCaller)
    \/ \E id \in Ids, p \in TaxonomyEmptyFieldPayloads :
            update_taxonomy(id, p, AnonymousCaller)
    \/ \E p \in MarineSpecieEmptyFieldPayloads :
            add_marinespecie(p, AnonymousCaller)
    \/ \E id \in Ids, p \in MarineSpecieEmptyFieldPayloads :
            update_marinespecie(id, p, AnonymousCaller)
    \/ Reply

SpecValidate == Init /\ [][NextValidate]_vars

\* the update calls of Next together with the query calls
NextAll ==
    \/ Next
    \/ get_all_taxonomy
    \/ get_all_marinespecie
    \/ \E status \in ConservationStatuses :
            get_marinespecie_by_conservation_status(status)

SpecAll == Init /\ [][NextAll]_vars

----------------------------------------------------------------------------
(* Vocabulary of the properties *)

\* this step is the execution of a call to op
CallStep(op) == last.op = "none" /\ last'.op = op

\* the latest call was op and it returned Ok
Returned(op) == last.op = op /\ last.result.kind = "Ok"

----------------------------------------------------------------------------
(* C1: within each collection the ids returned by successful Creates are   *)
(* strictly increasing and never repeat, also when records were deleted    *)
(* between the Creates: the id a Create returns is greater than every id   *)
(* returned before it.                                                     *)
C1_IdsStrictlyIncreasing ==
    [][ /\ (CallStep("add_taxonomy") /\ last'.result.kind = "Ok")
            => \A j \in ids_returned.Taxonomy : j < last'.result.value.id
        /\ (CallStep("add_marinespecie") /\ last'.result.kind = "Ok")
            => \A j \in ids_returned.MarineSpecie : j < last'.result.value.id
      ]_vars

\* a Create returned a fresh id after an earlier record had been deleted
C1_Witness ==
    /\ Returned("add_taxonomy")
    /\ ids_deleted.Taxonomy # {}
    /\ \E j \in ids_deleted.Taxonomy : j < last.result.value.id

(* C2: Update with a valid payload on an existing record, called by an     *)
(* identity other than the record's researcher, returns NotResearcher and  *)
(* leaves the store, updated_at included, as it was.                       *)
C2_UpdateByStrangerRejected ==
    [][ /\ ( /\ CallStep("update_taxonomy")
             /\ validate_TaxonomyPayload(last'.payload) = {}
             /\ last'.id \in DOMAIN taxonomy_str
             /\ taxonomy_str[last'.id].researcher # last'.caller )
            => /\ last'.result = NotResearcher
               /\ taxonomy_str' = taxonomy_str
        /\ ( /\ CallStep("update_marinespecie")
             /\ validate_MarineSpeciePayload(last'.payload) = {}
             /\ last'.id \in DOMAIN marinespecie_str
             /\ marinespecie_str[last'.id].researcher # last'.caller )
            => /\ last'.result = NotResearcher
               /\ marinespecie_str' = marinespecie_str
      ]_vars

\* a stranger's valid Update of an already updated record was rejected
C2_Witness ==
    /\ last.op = "update_marinespecie"
    /\ last.result = NotResearcher
    /\ validate_MarineSpeciePayload(last.payload) = {}
    /\ last.id \in DOMAIN marinespecie_str
    /\ marinespecie_str[last.id].researcher # last.caller
    /\ marinespecie_str[last.id].updated_at # None

(* C3: only the researcher removes a record.  Delete by another caller on  *)
(* an existing record returns NotResearcher and the store is unchanged;    *)
(* Delete by the researcher removes the record and returns it; Delete on   *)
(* an absent id returns NotFound whoever calls.                            *)
DeleteContract(str, id, caller, result, strAfter) ==
    IF id \notin DOMAIN str
    THEN result = NotFound /\ strAfter = str
    ELSE IF str[id].researcher # caller
    THEN result = NotResearcher /\ strAfter = str
    ELSE /\ result = Ok(str[id])
         /\ DOMAIN strAfter = (DOMAIN str) \ {id}
         /\ \A k \in DOMAIN strAfter : strAfter[k] = str[k]

C3_OnlyResearcherDeletes ==
    [][ /\ CallStep("delete_taxonomy")
            => DeleteContract(taxonomy_str, last'.id,
                              last'.caller, last'.result, taxonomy_str')
        /\ CallStep("delete_marinespecie")
            => DeleteContract(marinespecie_str, last'.id,
                              last'.caller, last'.result, marinespecie_str')
      ]_vars

\* a stranger's Delete was rejected and the record is still stored
C3_Witness ==
    /\ last.op = "delete_taxonomy"
    /\ last.result = NotResearcher
    /\ last.id \in DOMAIN taxonomy_str
    /\ taxonomy_str[last.id].researcher # last.caller

(* C4: a Create or Update whose payload fails validation returns           *)
(* ValidationFailed and changes neither id counter nor either store.       *)
C4_InvalidPayloadChangesNothing ==
    [][ /\ ( /\ CallStep("add_taxonomy") \/ CallStep("update_taxonomy")
             /\ validate_TaxonomyPayload(last'.payload) # {} )
            => last'.result.kind = "ValidationFailed" /\ UNCHANGED stable
        /\ ( /\ CallStep("add_marinespecie") \/ CallStep("update_marinespecie")
             /\ validate_MarineSpeciePayload(last'.payload) # {} )
            => last'.result.kind = "ValidationFailed" /\ UNCHANGED stable
      ]_vars

\* an invalid Create was refused in a collection that already handed out ids
C4_Witness ==
    /\ last.op = "add_taxonomy"
    /\ last.result.kind = "ValidationFailed"
    /\ validate_TaxonomyPayload(last.payload) # {}
    /\ taxonomy_id_counter > 0

(* C5: after a successful Create, ReadOne on the returned id succeeds and  *)
(* yields the record Create returned; its payload fields equal the input,  *)
(* its id is the returned id, its researcher is the creating caller and    *)
(* its updated_at is None.                                                 *)
C5_CreateThenReadOne ==
    /\ Returned("add_taxonomy") =>
        LET r == last.result.value
        IN  /\ get_taxonomy(r.id) = Ok(r)
            /\ get_taxonomy(r.id).value.id = r.id
            /\ \A f \in TaxonomyStrFields : r[f] = last.payload[f]
            /\ r.researcher = last.caller
            /\ r.updated_at = None
    /\ Returned("add_marinespecie") =>
        LET r == last.result.value
        IN  /\ get_marinespecie(r.id) = Ok(r)
            /\ get_marinespecie(r.id).value.id = r.id
            /\ \A f \in MarineSpecieStrFields : r[f] = last.payload[f]
            /\ r.taxonomy_id = last.payload.taxonomy_id
            /\ r.researcher = last.caller
            /\ r.updated_at = None

\* a Create into a collection that already holds another record returned
C5_Witness ==
    /\ Returned("add_marinespecie")
    /\ Cardinality(DOMAIN marinespecie_str) = 2
    /\ get_marinespecie(last.result.value.id).kind = "Ok"

C7_DeletedStaysNotFound ==
    /\ \A id \in ids_deleted.Taxonomy : get_taxonomy(id) = NotFound
    /\ \A id \in ids_deleted.MarineSpecie : get_marinespecie(id) = NotFound

\* a record was deleted and a later Create in that collection is stored
C7_Witness ==
    \E id \in ids_deleted.MarineSpecie :
        \E k \in DOMAIN marinespecie_str : k > id

(* C8: as long as a record is stored, whatever Updates succeed or fail,    *)
(* its id, researcher and created_at keep their values.                    *)
C8_IdentityFieldsKept ==
    [][ /\ \A id \in (DOMAIN taxonomy_str) \cap (DOMAIN taxonomy_str') :
            /\ taxonomy_str'[id].id = taxonomy_str[id].id
            /\ taxonomy_str'[id].researcher = taxonomy_str[id].researcher
            /\ taxonomy_str'[id].created_at = taxonomy_str[id].created_at
        /\ \A id \in (DOMAIN marinespecie_str) \cap (DOMAIN marinespecie_str') :
            /\ marinespecie_str'[id].id = marinespecie_str[id].id
            /\ marinespecie_str'[id].researcher = marinespecie_str[id].researcher
            /\ marinespecie_str'[id].created_at = marinespecie_str[id].created_at
      ]_vars

\* an Update changed a record some time after its creation
C8_Witness ==
    /\ Returned("update_taxonomy")
    /\ taxonomy_str[last.id].created_at < now
    /\ taxonomy_str[last.id].kingdom = last.payload.kingdom
    /\ taxonomy_str[last.id].researcher = last.caller

(* C9: a record's updated_at is None when it is created, a successful      *)
(* Update sets it to the time of that Update, and no other call, failed    *)
(* Updates included, changes it.                                           *)
UpdatedAtContract(str, strAfter, update_op) ==
    \A id \in DOMAIN strAfter :
        IF CallStep(update_op) /\ last'.result.kind = "Ok" /\ last'.id = id
        THEN strAfter[id].updated_at = Some(now)
        ELSE IF id \in DOMAIN str
        THEN strAfter[id].updated_at = str[id].updated_at
        ELSE strAfter[id].updated_at = None

C9_UpdatedAtFollowsUpdates ==
    [][ /\ UpdatedAtContract(taxonomy_str, taxonomy_str', "update_taxonomy")
        /\ UpdatedAtContract(marinespecie_str, marinespecie_str',
                             "update_marinespecie")
      ]_vars

\* an Update stamped one record with its time; another record, never
\* updated, still has None
C9_Witness ==
    /\ Returned("update_marinespecie")
    /\ marinespecie_str[last.id].updated_at = Some(now)
    /\ marinespecie_str[last.id].created_at < now
    /\ \E id \in DOMAIN marinespecie_str :
            id # last.id /\ marinespecie_str[id].updated_at = None

(* C10: a call to delete_taxonomy leaves the MarineSpecie collection as it *)
(* was: every MarineSpecie record, those that refer to the deleted         *)
(* Taxonomy included, is read afterwards with the same fields.             *)
C10_DeleteTaxonomyLeavesMarineSpecie ==
    [][ CallStep("delete_taxonomy") =>
            /\ marinespecie_id_counter' = marinespecie_id_counter
            /\ DOMAIN marinespecie_str' = DOMAIN marinespecie_str
            /\ \A id \in DOMAIN marinespecie_str :
                    get_marinespecie(id)' = Ok(marinespecie_str[id])
      ]_vars

\* a Taxonomy was deleted while a MarineSpecie record refers to it
C10_Witness ==
    /\ Returned("delete_taxonomy")
    /\ last.id \notin DOMAIN taxonomy_str
    /\ \E m \in DOMAIN marinespecie_str :
            marinespecie_str[m].taxonomy_id = last.id

----------------------------------------------------------------------------
\* s is empty once trimmed: it has no character other than spaces
IsBlank(s) == \A i \in 1..Len(s) : s[i] = " "

(* C11 as stated: a Create or Update payload in which a required string    *)
(* field is empty or only whitespace returns ValidationFailed, and no      *)
(* stored record has such a field.                                         *)
C11_BlankFieldRejected ==
    /\ ( /\ last.op \in {"add_taxonomy", "update_taxonomy"}
         /\ \E f \in TaxonomyStrFields : IsBlank(last.payload[f]) )
        => last.result.kind = "ValidationFailed"
    /\ ( /\ last.op \in {"add_marinespecie", "update_marinespecie"}
         /\ \E f \in MarineSpecieStrFields : IsBlank(last.payload[f]) )
        => last.result.kind = "ValidationFailed"
    /\ \A id \in DOMAIN taxonomy_str :
            \A f \in TaxonomyStrFields : ~IsBlank(taxonomy_str[id][f])
    /\ \A id \in DOMAIN marinespecie_str :
            \A f \in MarineSpecieStrFields : ~IsBlank(marinespecie_str[id][f])

(* C11 amended: required string fields must have at least one character,   *)
(* counted without trimming.  A Create or Update payload with an empty     *)
(* required string field returns ValidationFailed and changes nothing, so  *)
(* no stored record has an empty field; a payload without an empty field,  *)
(* whitespace-only fields included, passes validation.                     *)
C11_EmptyFieldRejected ==
    [][ /\ (CallStep("add_taxonomy") \/ CallStep("update_taxonomy")) =>
            IF \E f \in TaxonomyStrFields : last'.payload[f] = <<>>
            THEN last'.result.kind = "ValidationFailed" /\ UNCHANGED stable
            ELSE last'.result.kind # "ValidationFailed"
        /\ (CallStep("add_marinespecie") \/ CallStep("update_marinespecie")) =>
            IF \E f \in MarineSpecieStrFields : last'.payload[f] = <<>>
            THEN last'.result.kind = "ValidationFailed" /\ UNCHANGED stable
            ELSE last'.result.kind # "ValidationFailed"
        /\ \A id \in DOMAIN taxonomy_str' :
                \A f \in TaxonomyStrFields : taxonomy_str'[id][f] # <<>>
        /\ \A id \in DOMAIN marinespecie_str' :
                \A f \in MarineSpecieStrFields : marinespecie_str'[id][f] # <<>>
      ]_vars

\* an Update with an empty field was refused on a record that was stored
\* with a whitespace-only field
C11_Witness ==
    /\ last.op = "update_taxonomy"
    /\ last.result.kind = "ValidationFailed"
    /\ \E f \in TaxonomyStrFields : last.payload[f] = <<>>
    /\ last.id \in DOMAIN taxonomy_str
    /\ \E f \in TaxonomyStrFields : taxonomy_str[last.id][f] = <<" ">>

----------------------------------------------------------------------------
\* what an Update step answers, decided from the call and the store before it
UpdateContract(str, fields, update_op) ==
    CallStep(update_op) =>
        IF \E f \in fields : last'.payload[f] = <<>>
        THEN /\ last'.result.kind = "ValidationFailed"
             /\ UNCHANGED <<stable, now, history>>
        ELSE IF last'.id \notin DOMAIN str
        THEN /\ last'.result.kind = "NotFound"
             /\ UNCHANGED <<stable, now, history>>
        ELSE IF str[last'.id].researcher # last'.caller
        THEN /\ last'.result.kind = "NotResearcher"
             /\ UNCHANGED <<stable, now, history>>
        ELSE last'.result.kind \notin
                {"ValidationFailed", "NotFound", "NotResearcher"}

(* C12: Update reports the first failing precondition in the order         *)
(* validation, existence, ownership.  A payload with an empty field gives  *)
(* ValidationFailed for any id and caller; a valid payload on an absent id *)
(* gives NotFound for any caller; the not-authorized error (NotResearcher) *)
(* is returned only for a valid payload on an existing record of another   *)
(* identity.  In each failing case the state is unchanged.                 *)
C12_UpdatePreconditionOrder ==
    [][ /\ UpdateContract(taxonomy_str, TaxonomyStrFields, "update_taxonomy")
        /\ UpdateContract(marinespecie_str, MarineSpecieStrFields,
                          "update_marinespecie")
      ]_vars

\* an invalid Update of an existing record by a stranger answered
\* ValidationFailed: all three preconditions failed and the first was reported
C12_Witness ==
    /\ last.op = "update_marinespecie"
    /\ last.result.kind = "ValidationFailed"
    /\ last.id \in DOMAIN marinespecie_str
    /\ marinespecie_str[last.id].researcher # last.caller

----------------------------------------------------------------------------
\* the call in last passed validation with a field longer than MAX_SIZE, so
\* the record built from it serializes to more than MAX_SIZE bytes
OversizeCall(fields) ==
    /\ \A f \in fields : last.payload[f] # <<>>
    /\ \E f \in fields : Len(last.payload[f]) > MAX_SIZE

(* C13 as stated: a Create, or an Update by the owner of an existing       *)
(* record, whose record serializes to more than 1024 bytes returns an      *)
(* EncodingError as an ordinary error result.                              *)
C13_OversizeGivesEncodingError ==
    /\ (last.op = "add_taxonomy" /\ OversizeCall(TaxonomyStrFields))
        => last.result.kind = "EncodingError"
    /\ (last.op = "add_marinespecie" /\ OversizeCall(MarineSpecieStrFields))
        => last.result.kind = "EncodingError"
    /\ ( /\ last.op = "update_taxonomy"
         /\ OversizeCall(TaxonomyStrFields)
         /\ last.id \in DOMAIN taxonomy_str
         /\ taxonomy_str[last.id].researcher = last.caller )
        => last.result.kind = "EncodingError"
    /\ ( /\ last.op = "update_marinespecie"
         /\ OversizeCall(MarineSpecieStrFields)
         /\ last.id \in DOMAIN marinespecie_str
         /\ marinespecie_str[last.id].researcher = last.caller )
        => last.result.kind = "EncodingError"

----------------------------------------------------------------------------
\* the letters that differ only in case
LetterCase == {{"a", "A"}, {"b", "B"}}

\* s and t are the same text when the case of the letters is ignored
SameIgnoringCase(s, t) ==
    /\ Len(s) = Len(t)
    /\ \A i \in 1..Len(s) : s[i] = t[i] \/ {s[i], t[i]} \in LetterCase

\* result lists exactly the records of str with the ids in wanted, each as
\* stored, in ascending id order
ListsInIdOrder(result, str, wanted) ==
    /\ result.kind = "Ok"
    /\ Len(result.value) = Cardinality(wanted)
    /\ \A i \in 1..Len(result.value) :
            /\ result.value[i].id \in wanted
            /\ result.value[i] = str[result.value[i].id]
    /\ \A i, j \in 1..Len(result.value) :
            i < j => result.value[i].id < result.value[j].id

(* C14: for statuses written in ASCII letters, FilterByStatus(status)      *)
(* returns exactly the stored MarineSpecies records whose                  *)
(* conservation_status equals status with the case of the letters ignored, *)
(* in ascending id order, and NotFound if and only if no stored record     *)
(* matches.                                                                *)
C14_FilterByStatus ==
    last.op = "get_marinespecie_by_conservation_status" =>
        LET matching == {id \in DOMAIN marinespecie_str :
                SameIgnoringCase(marinespecie_str[id].conservation_status,
                                 last.conservation_status)}
        IN  IF matching = {}
            THEN last.result.kind = "NotFound"
            ELSE ListsInIdOrder(last.result, marinespecie_str, matching)

\* two records are stored and the filter by "b" returned one alone, the one
\* stored with status "B"
C14_Witness ==
    /\ last.op = "get_marinespecie_by_conservation_status"
    /\ last.conservation_status = <<"b">>
    /\ Cardinality(DOMAIN marinespecie_str) = 2
    /\ last.result.kind = "Ok"
    /\ Len(last.result.value) = 1
    /\ last.result.value[1].conservation_status = <<"B">>

----------------------------------------------------------------------------
(* C15: ReadAll answers NotFound exactly when the collection holds no      *)
(* record, whether none was created or all were deleted; otherwise it      *)
(* returns every stored record exactly once, in ascending id order.        *)
C15_ReadAll ==
    /\ last.op = "get_all_taxonomy" =>
        IF DOMAIN taxonomy_str = {}
        THEN last.result.kind = "NotFound"
        ELSE ListsInIdOrder(last.result, taxonomy_str, DOMAIN taxonomy_str)
    /\ last.op = "get_all_marinespecie" =>
        IF DOMAIN marinespecie_str = {}
        THEN last.result.kind = "NotFound"
        ELSE ListsInIdOrder(last.result, marinespecie_str,
                            DOMAIN marinespecie_str)

\* ReadAll answered NotFound on a collection whose records were all deleted
C15_Witness ==
    /\ last.op = "get_all_taxonomy"
    /\ last.result.kind = "NotFound"
    /\ ids_deleted.Taxonomy # {}
    /\ DOMAIN taxonomy_str = {}

----------------------------------------------------------------------------
\* the response in last is a ValidationFailed that names every field of
\* fields that the payload in last leaves empty
NamesEveryEmptyField(fields) ==
    LET empty == {f \in fields : last.payload[f] = <<>>}
    IN  empty # {} =>
            /\ last.result.kind = "ValidationFailed"
            /\ \A f \in empty : f \in last.result.content

(* C16: validation does not stop at the first violation: for a Create or   *)
(* Update payload with one or several empty required string fields, the    *)
(* ValidationFailed error names every empty field.                         *)
C16_EveryViolationNamed ==
    /\ last.op \in {"add_taxonomy", "update_taxonomy"}
        => NamesEveryEmptyField(TaxonomyStrFields)
    /\ last.op \in {"add_marinespecie", "update_marinespecie"}
        => NamesEveryEmptyField(MarineSpecieStrFields)

\* a payload with three empty fields was refused with the three fields named
C16_Witness ==
    /\ last.op = "add_marinespecie"
    /\ \A f \in MarineSpecieStrFields : last.payload[f] = <<>>
    /\ last.result.kind = "ValidationFailed"
    /\ Cardinality(last.result.content) = 3

----------------------------------------------------------------------------
\* a step in which the Create named add_op returned a record
CreateStep(add_op) == CallStep(add_op) /\ last'.result.kind = "Ok"

(* C17: each collection's id counter never decreases and changes only in a *)
(* successful Create on that collection, which adds exactly 1 to it;       *)
(* Update, Delete, the queries, every failed call and every Create on the  *)
(* other collection leave it unchanged.                                    *)
C17_CounterChangesOnlyInCreate ==
    [][ /\ IF CreateStep("add_taxonomy")
           THEN taxonomy_id_counter' = taxonomy_id_counter + 1
           ELSE taxonomy_id_counter' = taxonomy_id_counter
        /\ IF CreateStep("add_marinespecie")
           THEN marinespecie_id_counter' = marinespecie_id_counter + 1
           ELSE marinespecie_id_counter' = marinespecie_id_counter
      ]_vars

\* both Creates were followed by Deletes, ReadAll answers NotFound and the
\* counter still counts both Creates
C17_Witness ==
    /\ last.op = "get_all_marinespecie"
    /\ last.result.kind = "NotFound"
    /\ marinespecie_id_counter = 2
    /\ ids_deleted.MarineSpecie = {0, 1}

----------------------------------------------------------------------------
\* after the step every record of strAfter is stored under its own id, below
\* counterAfter; a Create step of add_op stores its record under an id above
\* every key of str and leaves the records of str as they were
CreateContract(str, strAfter, counterAfter, add_op) ==
    /\ \A k \in DOMAIN strAfter :
            strAfter[k].id = k /\ k < counterAfter
    /\ CreateStep(add_op) =>
            /\ \A k \in DOMAIN str : k < last'.result.value.id
            /\ \A k \in DOMAIN str : strAfter[k] = str[k]
            /\ DOMAIN strAfter = DOMAIN str \cup {last'.result.value.id}

(* C18: Create never overwrites an existing record.  In every reachable    *)
(* state each stored record is keyed by its own id field and every stored  *)
(* key is smaller than the counter, which is the id the next successful    *)
(* Create on that collection assigns; a successful Create adds its record  *)
(* under an id larger than every stored key and changes no other record.   *)
C18_CreateNeverOverwrites ==
    [][ /\ CreateContract(taxonomy_str, taxonomy_str', taxonomy_id_counter',
                          "add_taxonomy")
        /\ CreateContract(marinespecie_str, marinespecie_str',
                          marinespecie_id_counter', "add_marinespecie")
      ]_vars

\* a second Create stored its record beside the first one
C18_Witness ==
    /\ last.op = "add_taxonomy"
    /\ last.result.kind = "Ok"
    /\ DOMAIN taxonomy_str = {0, 1}
    /\ last.result.value = taxonomy_str[1]
    /\ taxonomy_str[0].id = 0

----------------------------------------------------------------------------
(* C19: the two collections are independent.  A Taxonomy Create, Update or *)
(* Delete leaves the MarineSpecies counter and store unchanged, a          *)
(* MarineSpecies Create, Update or Delete leaves the Taxonomy counter and  *)
(* store unchanged, and the id a successful Create returns is the number   *)
(* of earlier successful Creates on its own collection, whatever was       *)
(* created in the other.                                                   *)
C19_CollectionsIndependent ==
    [][ /\ ( \/ CallStep("add_taxonomy")
             \/ CallStep("update_taxonomy")
             \/ CallStep("delete_taxonomy") )
            => UNCHANGED <<marinespecie_id_counter, marinespecie_str>>
        /\ ( \/ CallStep("add_marinespecie")
             \/ CallStep("update_marinespecie")
             \/ CallStep("delete_marinespecie") )
            => UNCHANGED <<taxonomy_id_counter, taxonomy_str>>
        /\ CreateStep("add_taxonomy") =>
            last'.result.value.id = Cardinality(ids_returned.Taxonomy)
        /\ CreateStep("add_marinespecie") =>
            last'.result.value.id = Cardinality(ids_returned.MarineSpecie)
      ]_vars

\* the first MarineSpecies Create returned id 0 after a Taxonomy Create had
\* taken Taxonomy id 0
C19_Witness ==
    /\ last.op = "add_marinespecie"
    /\ last.result.kind = "Ok"
    /\ last.result.value.id = 0
    /\ taxonomy_id_counter = 1
    /\ 0 \in DOMAIN taxonomy_str

====
